---- MODULE Spec2Model ----
(***************************************************************************)
(* A model of aiomysql/connection.py: the Connection object, the result   *)
(* objects (MySQLResult) it creates, the transports it opens and the      *)
(* MySQL server at the other end of each transport.                       *)
(*                                                                         *)
(* Every coroutine of the source is a small machine over labels; a task   *)
(* keeps a stack of frames, one per coroutine it is inside.  A task runs  *)
(* without interruption from one network read to the next (cur = t); a    *)
(* read (a frame "rp") or the opening of a transport (a frame "cn0") is a *)
(* suspension point (cur = 0), where the network may fail and another     *)
(* task may run.                                                          *)
(***************************************************************************)
EXTENDS Integers, Sequences, FiniteSets, TLC

VARIABLES
    conn,   \* the Connection object's fields
    tr,     \* the transports opened so far, with the server session behind each
    res,    \* the MySQLResult objects created so far
    task,   \* per task: stack of frames, pending exception, last value
    last,   \* per task: how its last operation ended, and the state it began in
    cur,    \* the task holding the event loop, 0 when every task is suspended
    gh,     \* history (operations called, commands written) and the callers' profile
    fr      \* the framing experiment: a payload, its frames, its reassembly

vars == <<conn, tr, res, task, last, cur, gh, fr>>

----------------------------------------------------------------------------
(* Bounds of the model. *)

\* The largest frame payload, 0xFFFFFF in pymysql, scaled down.
MAX_PACKET_LEN == 3
\* The transports one Connection opens in a run.
MaxTransports == 2
\* The MySQLResult objects created in a run.
MaxResults == 3
\* The commands written in a run.
MaxCmds == 2
\* The columns and rows of a result set the server sends.
MaxCols == 4
\* The operations called in a run: on a Connection just constructed, on a
\* connected one by one caller of queries, by two tasks, by one caller of
\* queries and session commands.
MaxOps == 3
MaxQueryOps == 4
MaxTaskOps == 3
MaxCommandOps == 2
MaxConnectOps == 2
MaxPingOps == 2
MaxRows == 2

----------------------------------------------------------------------------
(* Values. *)

\* Python's None, for a reference or a number.
None == 0
\* MySQLResult.affected_rows before anything was read (None).
NoRows == -1
\* Connection.server_status before any packet set it: the attribute is absent.
Unset == -2
\* The affected-row count of a streaming result before its first row:
\* 18446744073709551615 in the source, the largest 32-bit number here.
UINT64_MAX == 2147483647
SERVER_STATUS_AUTOCOMMIT == 2
\* The sequence number of a frame is one byte.
SeqModulus == 256
\* The length of the catalog of a field descriptor, always "def": the first
\* byte of a field-descriptor packet.
DefCatalog == <<"d", "e", "f">>

Min(a, b) == IF a < b THEN a ELSE b

Bytes == {0, 1}
MaxSqlLen == 2 * MAX_PACKET_LEN + 1
\* Payloads of zeros long enough for the sequence number to wrap.
LongTexts == {[i \in 1..n |-> 0] :
                 n \in ((SeqModulus + 1) * MAX_PACKET_LEN - 1)
                           ..((SeqModulus + 1) * MAX_PACKET_LEN)}
SqlTexts == UNION {[1..n -> Bytes] : n \in 0..MaxSqlLen}
COM_QUERY == 3
COM_PING == 14
Commands == {COM_QUERY, COM_PING}

----------------------------------------------------------------------------
(* Framing: Connection._execute_command (write) and _read_packet (read).   *)
(* The wire is a sequence of numbers: a header is two of them, the 3-byte  *)
(* length and the sequence byte, and the payload bytes follow.            *)

\* struct.pack('<i', n): the three low bytes as one number, then the high byte.
LenModulus == MAX_PACKET_LEN + 1
pack_i(n) == <<n % LenModulus, n \div LenModulus>>

\* The exit test of the continuation loop (line 465).
LastChunk_noEmptyFrame(rest, chunk_size) == rest = <<>>
LastChunk(rest, chunk_size) == rest = <<>> /\ chunk_size < MAX_PACKET_LEN

\* int2byte(seq_id % 256) (line 461)
SeqByte_noWrap(seq_id) == seq_id
SeqByte(seq_id) == seq_id % SeqModulus

\* The while loop of _execute_command (lines 456-467), iteration j: every
\* iteration before it has cut MAX_PACKET_LEN bytes off sql (line 464) and
\* added one to seq_id (line 467).
SqlAt(sql, j) == SubSeq(sql, (j - 1) * MAX_PACKET_LEN + 1, Len(sql))
ChunkSizeAt(sql, j) == Min(MAX_PACKET_LEN, Len(SqlAt(sql, j)))
\* The iteration the loop leaves at: the first one whose exit test holds.
Iterations(sql) ==
    CHOOSE j \in 1..(Len(sql) + 1) :
        /\ LastChunk(SqlAt(sql, j + 1), ChunkSizeAt(sql, j))
        /\ \A k \in 1..(j - 1) : ~LastChunk(SqlAt(sql, k + 1), ChunkSizeAt(sql, k))
\* What the loop gives to _write_bytes, call by call (line 462).
ContinuationWrites(seq_id, sql) ==
    [j \in 1..Iterations(sql) |->
        LET chunk_size == ChunkSizeAt(sql, j)
            prelude    == <<pack_i(chunk_size)[1]>>
        IN  prelude \o <<SeqByte(seq_id + j - 1)>>
                \o SubSeq(SqlAt(sql, j), 1, chunk_size)]

\* Everything _execute_command gives to _write_bytes for one command, call
\* by call (lines 448-467).
ExecuteCommandWrites(command, sql) ==
    LET chunk_size == Min(MAX_PACKET_LEN, Len(sql) + 1)
        prelude    == pack_i(chunk_size) \o <<command>>
        first      == prelude \o SubSeq(sql, 1, chunk_size - 1)
    IN  IF chunk_size < MAX_PACKET_LEN
        THEN <<first>>
        ELSE <<first>> \o ContinuationWrites(1, SubSeq(sql, chunk_size, Len(sql)))

\* The bytes of the writes lo to hi, in the order written.
RECURSIVE Join(_, _, _)
Join(ws, lo, hi) ==
    IF lo > hi THEN <<>>
    ELSE IF lo = hi THEN ws[lo]
    ELSE Join(ws, lo, (lo + hi) \div 2) \o Join(ws, (lo + hi) \div 2 + 1, hi)

\* The bytes the continuation loop writes, and all _execute_command writes.
ContinuationFrames(seq_id, sql) ==
    Join(ContinuationWrites(seq_id, sql), 1, Iterations(sql))
ExecuteCommandWire(command, sql) ==
    Join(ExecuteCommandWrites(command, sql), 1,
         Len(ExecuteCommandWrites(command, sql)))

\* The loop of _read_packet (lines 383-400) on the bytes received: the packet
\* put together, the frames it took, the bytes left, and whether the bytes
\* sufficed (readexactly raises IncompleteReadError when they do not).
RECURSIVE ReadFrames(_, _, _)
ReadFrames(wire, buff, n) ==
    IF Len(wire) < 2 \/ Len(wire) < 2 + wire[1]
    THEN [buff |-> buff, frames |-> n, rest |-> wire, ok |-> FALSE]
    ELSE LET bytes_to_read == wire[1]
             recv_data     == SubSeq(wire, 3, 2 + bytes_to_read)
             rest          == SubSeq(wire, 3 + bytes_to_read, Len(wire))
         IN  IF bytes_to_read < MAX_PACKET_LEN
             THEN [buff |-> buff \o recv_data, frames |-> n + 1, rest |-> rest, ok |-> TRUE]
             ELSE ReadFrames(rest, buff \o recv_data, n + 1)

ReadPacketBytes(wire) == ReadFrames(wire, <<>>, 0)

\* The frames of a wire, header by header, whatever their lengths.
RECURSIVE FramesOf(_)
FramesOf(wire) ==
    IF Len(wire) < 2 \/ Len(wire) < 2 + wire[1]
    THEN <<>>
    ELSE <<[len |-> wire[1], seq |-> wire[2], data |-> SubSeq(wire, 3, 2 + wire[1])]>>
         \o FramesOf(SubSeq(wire, 3 + wire[1], Len(wire)))

FrIdle == [pc |-> "idle", command |-> 0, sql |-> <<>>, wire |-> <<>>,
           packet |-> [buff |-> <<>>, frames |-> 0, rest |-> <<>>, ok |-> FALSE]]

\* A command and a payload are chosen.
FrameChoose ==
    /\ fr.pc = "idle"
    /\ \E c \in Commands, s \in SqlTexts :
          fr' = [FrIdle EXCEPT !.pc = "chosen", !.command = c, !.sql = s]
    /\ UNCHANGED <<conn, tr, res, task, last, cur, gh>>

\* A command and a long payload are chosen.
FrameChooseLong ==
    /\ fr.pc = "idle"
    /\ \E c \in Commands, s \in LongTexts :
          fr' = [FrIdle EXCEPT !.pc = "chosen", !.command = c, !.sql = s]
    /\ UNCHANGED <<conn, tr, res, task, last, cur, gh>>

\* _execute_command writes the command.
FrameWrite ==
    /\ fr.pc = "chosen"
    /\ fr' = [fr EXCEPT !.pc = "written",
                        !.wire = ExecuteCommandWire(fr.command, fr.sql)]
    /\ UNCHANGED <<conn, tr, res, task, last, cur, gh>>

\* The peer reads it back the way _read_packet reads.
FrameRead ==
    /\ fr.pc = "written"
    /\ fr' = [fr EXCEPT !.pc = "read", !.packet = ReadPacketBytes(fr.wire)]
    /\ UNCHANGED <<conn, tr, res, task, last, cur, gh>>

----------------------------------------------------------------------------
(* Packets.  k is what the first bytes of the packet make it; v is the     *)
(* column count of a column-count packet, the number of a row, the         *)
(* affected-row count of an OK packet, 1 for a greeting with the extended  *)
(* capability block; w is the number of columns of a row; st is the server *)
(* status an OK packet or a greeting carries; tag is the number of the     *)
(* command the packet answers (0 during the handshake).                    *)

Pkt(k, v, w, st, tag) == [k |-> k, v |-> v, w |-> w, st |-> st, tag |-> tag]
NoPkt == Pkt("none", 0, 0, 0, 0)

is_ok_packet(p) == p.k = "OK"
is_eof_packet(p) == p.k = "EOF"
is_error_packet(p) == p.k = "ERR"

\* read_length_encoded_integer on the first byte of a packet: the column
\* count; the length of "def" for a field descriptor; the length of the first
\* column for a row (row i carries an i-byte first column).
LeiDefined(p) == p.k \in {"COUNT", "FD", "ROW"}
read_length_encoded_integer(p) ==
    CASE p.k = "COUNT" -> p.v
      [] p.k = "FD"    -> Len(DefCatalog)
      [] p.k = "ROW"   -> p.v
      [] OTHER         -> 0

\* What the server sends for a result set of c columns and n rows.  The
\* column-count packet is marked with n, which only the server knows.
ResultSetPackets(c, n, tag) ==
    <<Pkt("COUNT", c, n, 0, tag)>>
    \o [i \in 1..c |-> Pkt("FD", i, 0, 0, tag)]
    \o <<Pkt("EOF", 0, 0, 0, tag)>>
    \o [i \in 1..n |-> Pkt("ROW", i, c, 0, tag)]
    \o <<Pkt("EOF", 0, 0, 0, tag)>>

\* The result set a packet begins.
ResultSetOf(p) == IF p.k = "COUNT" THEN <<p.v, p.w>> ELSE <<0, 0>>

HasError(pk) == \E i \in 1..Len(pk) : pk[i].k = "ERR"

OKPacket(affected, st, tag) == <<Pkt("OK", affected, 0, st, tag)>>
ErrPacket(tag) == <<Pkt("ERR", 0, 0, 0, tag)>>

\* The answers the server may give to a command, each with the autocommit
\* status of the session afterwards.  sac is that status before.
ServerReply(c, arg, sac, tag) ==
    CASE c = "SELECT" ->
            {[pk |-> ResultSetPackets(nc, nr, tag), sac |-> sac] :
                 nc \in 1..gh.cols, nr \in 0..MaxRows}
            \cup {[pk |-> ErrPacket(tag), sac |-> sac],
                  [pk |-> <<Pkt("COUNT", 1, 0, 0, tag)>> \o ErrPacket(tag), sac |-> sac],
                  [pk |-> SubSeq(ResultSetPackets(1, 1, tag), 1, 4) \o ErrPacket(tag),
                   sac |-> sac]}
      [] c = "UPDATE" ->
            {[pk |-> OKPacket(1, sac, tag), sac |-> sac]}
      [] c = "SET_AUTOCOMMIT" ->
            {[pk |-> OKPacket(0, arg * SERVER_STATUS_AUTOCOMMIT, tag),
              sac |-> arg * SERVER_STATUS_AUTOCOMMIT]}
      [] OTHER ->
            {[pk |-> OKPacket(0, sac, tag), sac |-> sac],
             [pk |-> ErrPacket(tag), sac |-> sac]}

----------------------------------------------------------------------------
(* The objects. *)

Charsets == {"latin1", "utf8"}
DEFAULT_CHARSET == "latin1"
\* charset_by_name(charset).encoding
Encoding(charset) == IF charset = "utf8" THEN "utf8" ELSE "cp1252"

\* None among the user names.
NoUser == "None"
\* getpass.getuser() (line 41): the login name, never None.
DEFAULT_USER == "login"
\* Connection.__init__ called with user and the default of every other
\* argument; line 152: no user, or an empty one, is the login name.  The
\* attributes _get_server_information sets do not exist yet.
NewConn(user) ==
    [writer |-> None, reader |-> None, result |-> None,
     affected_rows |-> 0, server_status |-> Unset,
     autocommit_mode |-> FALSE,
     charset |-> DEFAULT_CHARSET, encoding |-> Encoding(DEFAULT_CHARSET),
     user |-> IF user \in {NoUser, ""} THEN DEFAULT_USER ELSE user,
     protocol_version |-> Unset, server_version |-> <<>>,
     server_thread_id |-> Unset, salt |-> <<>>, server_capabilities |-> Unset]
InitConn == NewConn("user")

\* MySQLResult.__init__.  fields is the number of field descriptors parsed,
\* Unset while the attribute does not exist; rows_none tells rows = None from
\* rows = ().  History: cmd is the tag of the first packet the result read,
\* of the <<columns, rows>> of the result set that packet begins (<<0, 0>>
\* when it begins none), unbuffered the mode the result was created in,
\* pulled the rows the single-row pulls have returned.
NewResult == [connection |-> TRUE, affected_rows |-> NoRows,
              server_status |-> Unset, field_count |-> 0, fields |-> Unset,
              rows |-> <<>>, rows_none |-> TRUE, unbuffered_active |-> FALSE,
              cmd |-> 0, pulled |-> <<>>, unbuffered |-> FALSE, of |-> <<0, 0>>]

\* The thread id the server gives the connection.
ThreadId == 42
\* A transport just opened: the server has sent its greeting.  ready: a
\* connect() that opened the transport has returned.
NewTransport(ext, sac) ==
    [inq |-> <<Pkt("GREET", IF ext THEN 1 ELSE 0, ThreadId, sac, 0)>>,
     net |-> "up", closes |-> 0, sac |-> sac, ready |-> FALSE]

\* Connection.open
open == conn.writer # None
\* The Connection is open on a transport that connect() has returned on.
Ready == open /\ tr[conn.writer].ready

\* Connection.get_autocommit, on a server status that is set.
get_autocommit(st) == (st \div SERVER_STATUS_AUTOCOMMIT) % 2 = 1

\* The session state of the Connection.
Session == [server_status |-> conn.server_status, charset |-> conn.charset,
            encoding |-> conn.encoding, autocommit_mode |-> conn.autocommit_mode,
            result |-> conn.result, affected_rows |-> conn.affected_rows]

----------------------------------------------------------------------------
(* Tasks and frames. *)

\* A frame: the label to go on from, a result, a flag, a number, the command
\* (c) and the rows collected so far (rw).
F(l, r, f, n, c) == [l |-> l, r |-> r, f |-> f, n |-> n, c |-> c, rw |-> <<>>]

\* wr: the commands the operation has written; rd: the packets it has read
\* since it last wrote one (since it began, when it wrote none); err: the
\* answer to the command it wrote last holds an Error packet; failed: the
\* result for which a read has raised; auth: the authentication packets it
\* has written; got: the packets it has read since it last wrote a command;
\* ans: the result set the answer to that command is; charset: the charset
\* set_charset was called with.
NoSession == [server_status |-> Unset, charset |-> "", encoding |-> "",
              autocommit_mode |-> FALSE, result |-> None, affected_rows |-> 0]
IdleTask == [stack |-> <<>>, exc |-> "none", ret |-> NoPkt, val |-> 0,
             op |-> "none", arg |-> 0, ev |-> <<>>, io |-> FALSE, cmd |-> 0,
             pre |-> NoSession, open |-> FALSE, ready |-> FALSE,
             wr |-> 0, rd |-> 0, err |-> FALSE, failed |-> None,
             auth |-> <<>>, got |-> <<>>, ans |-> <<0, 0>>, charset |-> ""]

\* same: the session state is what it was when the operation began; open,
\* ready: the Connection was open then, on a transport connect() had
\* returned on.
NoLast == [op |-> "none", arg |-> 0, out |-> "none", val |-> 0, ev |-> <<>>,
           io |-> FALSE, same |-> TRUE, open |-> FALSE, ready |-> FALSE]

Tasks == DOMAIN task
Top(t) == Head(task[t].stack)
\* Task t runs and is at label l.
At(t, l) ==
    /\ cur = t
    /\ task[t].exc = "none"
    /\ task[t].stack # <<>>
    /\ Top(t).l = l
\* Task t is suspended at label l.
Waiting(t, l) ==
    /\ cur = 0
    /\ task[t].exc = "none"
    /\ task[t].stack # <<>>
    /\ Top(t).l = l

Goto(t, l) == <<[Top(t) EXCEPT !.l = l]>> \o Tail(task[t].stack)
Call(t, l, f) == <<f>> \o Goto(t, l)
Ret(t) == Tail(task[t].stack)
ReadFrame(fd) == F("rp", None, fd, 0, "")

\* An operation begins: the caller calls it while no task runs.
CanCall(t) == cur = 0 /\ task[t].stack = <<>> /\ gh.nops < gh.budget
Begin(t, op, arg, stack) ==
    /\ task' = [task EXCEPT ![t] =
                  [IdleTask EXCEPT !.stack = stack, !.op = op, !.arg = arg,
                                   !.pre = Session, !.open = open,
                                   !.ready = Ready]]
    /\ gh' = [gh EXCEPT !.overlap = @ \/ \E u \in Tasks \ {t} : task[u].stack # <<>>,
                        !.nops = @ + 1]
    /\ last' = [last EXCEPT ![t] = NoLast]

\* How an operation ended.
Outcome(op, arg, out, val, ev, io, same, wasOpen, wasReady) ==
    [op |-> op, arg |-> arg, out |-> out, val |-> val, ev |-> ev, io |-> io,
     same |-> same, open |-> wasOpen, ready |-> wasReady]

\* A result that is neither the Connection's current result, nor streaming,
\* nor being read by a task is garbage: nothing can be done with it any more.
Referenced(r) == \E u \in Tasks : \E i \in 1..Len(task[u].stack) : task[u].stack[i].r = r
Garbage == [connection |-> FALSE, affected_rows |-> NoRows,
            server_status |-> Unset, field_count |-> 0, fields |-> Unset,
            rows |-> <<>>, rows_none |-> TRUE, unbuffered_active |-> FALSE,
            cmd |-> 0, pulled |-> <<>>, unbuffered |-> FALSE, of |-> <<0, 0>>]
Collect == [r \in DOMAIN res |->
              IF ~gh.keep /\ r # conn.result /\ ~res[r].unbuffered_active /\ ~Referenced(r)
              THEN Garbage ELSE res[r]]

\* The operation of task t has returned or raised: the caller has the outcome.
Complete(t) ==
    /\ cur = t
    /\ task[t].stack = <<>>
    /\ last' = [last EXCEPT ![t] =
                  Outcome(task[t].op, task[t].arg,
                          IF task[t].exc = "none" THEN "ok" ELSE task[t].exc,
                          task[t].val, task[t].ev, task[t].io,
                          task[t].pre = Session, task[t].open, task[t].ready)]
    /\ task' = [task EXCEPT ![t] = IdleTask]
    /\ cur' = 0
    /\ res' = Collect
    /\ UNCHANGED <<conn, tr, gh, fr>>

----------------------------------------------------------------------------
(* The network. *)

\* The transport the Connection reads from breaks: every read of it raises
\* an OSError from now on.
ConnectionReset ==
    /\ cur = 0
    /\ conn.reader # None
    /\ tr[conn.reader].net = "up"
    /\ tr' = [tr EXCEPT ![conn.reader].net = "reset", ![conn.reader].inq = <<>>]
    /\ UNCHANGED <<conn, res, task, last, cur, gh, fr>>

\* The server closes the transport: what it has sent can still be read, and
\* readexactly raises IncompleteReadError after that.
ConnectionEof ==
    /\ cur = 0
    /\ conn.reader # None
    /\ tr[conn.reader].net = "up"
    /\ tr' = [tr EXCEPT ![conn.reader].net = "eof"]
    /\ UNCHANGED <<conn, res, task, last, cur, gh, fr>>

\* What arrives on transport w when the server answers with packets pk.
Deliver(w, pk) == IF tr[w].net = "up" /\ tr[w].closes = 0
                  THEN tr[w].inq \o pk ELSE tr[w].inq

----------------------------------------------------------------------------
(* Connection._read_packet (lines 378-406): a suspended task reads one     *)
(* packet.  The frame's flag says the packet is to be parsed as a          *)
(* FieldDescriptorPacket (line 404, before check_error).                   *)

\* The exception of a read that gets packet p, "none" when it returns p.
ReadRaises(p, fd) ==
    CASE fd /\ p.k = "ERR" -> {"ParseError", "ServerError"}
      [] fd /\ p.k # "FD"  -> {"ParseError"}
      [] is_error_packet(p) -> {"ServerError"}
      [] OTHER -> {"none"}

\* The result the caller of _read_packet reads for (None: for no result).
ReadFor(t) == task[t].stack[2].r

read_packet(t) ==
    /\ Waiting(t, "rp")
    /\ LET rd == conn.reader IN
       IF rd = None
       THEN /\ task' = [task EXCEPT ![t].stack = Ret(t), ![t].exc = "AttributeError"]
            /\ UNCHANGED <<tr, gh>>
       ELSE IF tr[rd].net = "reset"
       THEN /\ task' = [task EXCEPT ![t].stack = Ret(t),
                                    ![t].exc = "OperationalError2006",
                                    ![t].failed = ReadFor(t)]
            /\ UNCHANGED <<tr, gh>>
       ELSE IF tr[rd].inq = <<>>
       THEN /\ tr[rd].net = "eof" \/ tr[rd].closes > 0
            /\ task' = [task EXCEPT ![t].stack = Ret(t),
                                    ![t].exc = "IncompleteReadError",
                                    ![t].failed = ReadFor(t)]
            /\ UNCHANGED <<tr, gh>>
       ELSE LET p == Head(tr[rd].inq) IN
            /\ tr' = [tr EXCEPT ![rd].inq = Tail(@)]
            /\ \E e \in ReadRaises(p, Top(t).f) :
                  task' = [task EXCEPT ![t].stack = Ret(t), ![t].exc = e,
                                       ![t].ret = IF e = "none" THEN p ELSE NoPkt,
                                       ![t].io = TRUE, ![t].rd = @ + 1,
                                       ![t].got = Append(@, p),
                                       ![t].failed = IF e = "none" THEN @
                                                     ELSE ReadFor(t)]
            /\ UNCHANGED gh
    /\ cur' = t
    /\ UNCHANGED <<conn, res, last, fr>>

----------------------------------------------------------------------------
(* Connection.close and close_async (lines 194-204). *)

close(t) ==
    /\ CanCall(t)
    /\ IF conn.writer = None
       THEN /\ last' = [last EXCEPT ![t] =
                  Outcome("close", 0, "AttributeError", 0, <<>>, FALSE, TRUE, open, Ready)]
            /\ UNCHANGED <<conn, tr>>
       ELSE /\ tr' = [tr EXCEPT ![conn.writer].closes = @ + 1]
            /\ conn' = [conn EXCEPT !.writer = None]
            /\ last' = [last EXCEPT ![t] =
                  Outcome("close", 0, "ok", 0, <<>>, FALSE, TRUE, open, Ready)]
    /\ gh' = [gh EXCEPT !.nops = @ + 1]
    /\ UNCHANGED <<res, task, cur, fr>>

\* close_async writes COM_QUIT, which the server does not answer, and closes.
close_async(t) ==
    /\ CanCall(t)
    /\ IF conn.writer = None
       THEN /\ last' = [last EXCEPT ![t] =
                  Outcome("close_async", 0, "AttributeError", 0, <<>>, FALSE, TRUE, open, Ready)]
            /\ UNCHANGED <<conn, tr>>
       ELSE /\ tr' = [tr EXCEPT ![conn.writer].closes = @ + 1]
            /\ conn' = [conn EXCEPT !.writer = None]
            /\ last' = [last EXCEPT ![t] =
                  Outcome("close_async", 0, "ok", 0, <<>>, TRUE, TRUE, open, Ready)]
    /\ gh' = [gh EXCEPT !.nops = @ + 1]
    /\ UNCHANGED <<res, task, cur, fr>>

----------------------------------------------------------------------------
(* Connection.connect (lines 338-376), _get_server_information (527-567)  *)
(* and _request_authentication (469-512).  sql_mode and init_command are  *)
(* None, as Connection.__init__ leaves them by default.                   *)

\* Lines 345 and 351 replace the reader: what the old transport still held
\* can no longer be read.
Abandon == [i \in DOMAIN tr |-> [tr[i] EXCEPT !.inq = <<>>]]

\* The handler of connect (lines 372-376).
ConnectHandles(e) == e = "OSError"

connect(t) ==
    \/ /\ CanCall(t)
       /\ Begin(t, "connect", 0, <<F("cn0", None, FALSE, 0, "")>>)
       /\ UNCHANGED <<conn, tr, res, cur, fr>>
    \* open_connection raises an OSError: lines 372-376
    \/ /\ Waiting(t, "cn0")
       /\ conn' = [conn EXCEPT !.reader = None, !.writer = None]
       /\ task' = [task EXCEPT ![t].stack = Ret(t),
                               ![t].exc = "OperationalError2003"]
       /\ cur' = t
       /\ UNCHANGED <<tr, res, last, gh, fr>>
    \* open_connection returns; _get_server_information reads the greeting
    \/ /\ Waiting(t, "cn0")
       /\ Len(tr) < MaxTransports
       /\ \E ext \in BOOLEAN, sac \in {0, SERVER_STATUS_AUTOCOMMIT} :
             tr' = Append(Abandon, NewTransport(ext, sac))
       /\ conn' = [conn EXCEPT !.reader = Len(tr) + 1, !.writer = Len(tr) + 1]
       /\ task' = [task EXCEPT ![t].stack =
                     <<ReadFrame(FALSE), F("gsi1", None, FALSE, 0, "")>>
                     \o Goto(t, "cn2")]
       /\ UNCHANGED <<res, last, cur, gh, fr>>
    \/ /\ At(t, "cn2")
       /\ task' = [task EXCEPT ![t].stack =
                     Call(t, "cn3", F("ra0", None, FALSE, 0, ""))]
       /\ UNCHANGED <<conn, tr, res, last, cur, gh, fr>>
    \* line 370: autocommit_mode is never None here
    \/ /\ At(t, "cn3")
       /\ task' = [task EXCEPT ![t].stack =
                     Call(t, "cn4", F("ac0", None, conn.autocommit_mode, 0, ""))]
       /\ UNCHANGED <<conn, tr, res, last, cur, gh, fr>>
    \/ /\ At(t, "cn4")
       /\ task' = [task EXCEPT ![t].stack = Ret(t)]
       /\ tr' = [tr EXCEPT ![conn.writer].ready = TRUE]
       /\ UNCHANGED <<conn, res, last, cur, gh, fr>>

\* The bytes of the server's greeting: protocol version, server version
\* and its terminator, thread id, salt part 1 and filler, capability-low
\* and, when the server sends the extended block, language, status,
\* capability-high, salt length, ten reserved bytes, salt part 2 and its
\* terminator.
ProtocolVersion == 10
ServerVersion == <<53, 46, 55>>
SaltPart1 == <<1, 2, 3, 4, 5, 6, 7, 8>>
SaltPart2 == <<9, 10, 11, 12, 13, 14, 15, 16, 17, 18, 19, 20>>
CapabilityLow == 63487
CapabilityHigh == 1
Language == 8
LittleEndian(v, n) == [i \in 1..n |-> (v \div (256 ^ (i - 1))) % 256]
GreetingData(p) ==
    <<ProtocolVersion>> \o ServerVersion \o <<0>> \o LittleEndian(p.w, 4)
        \o SaltPart1 \o <<0>> \o LittleEndian(CapabilityLow, 2)
        \o IF p.v = 1
           THEN <<Language>> \o LittleEndian(p.st, 2)
                    \o LittleEndian(CapabilityHigh, 2)
                    \o <<Len(SaltPart1) + Len(SaltPart2) + 1>>
                    \o [i \in 1..10 |-> 0] \o SaltPart2 \o <<0>>
           ELSE <<>>

\* data[i:j] and struct.unpack of little-endian bytes.
Slice(data, i, j) == SubSeq(data, i + 1, Min(j, Len(data)))
RECURSIVE Unpack(_)
Unpack(b) == IF b = <<>> THEN 0 ELSE b[1] + 256 * Unpack(Tail(b))
\* data.find(b'\0', i)
Find0(data, i) ==
    IF \E j \in (i + 1)..Len(data) : data[j] = 0
    THEN (CHOOSE j \in (i + 1)..Len(data) :
             data[j] = 0 /\ \A k \in (i + 1)..(j - 1) : data[k] # 0) - 1
    ELSE -1

\* Whether the greeting holds the extended block (line 547), at offset i.
HasExtendedBlock(data, i) == Len(data) >= i + 6

\* Connection._get_server_information on the bytes of the greeting: the
\* attributes it sets and how it ends.  salt_len is bound in the branch of
\* line 547 only, so line 564 raises UnboundLocalError when that branch was
\* not taken; the attributes set before are kept.
ServerInformation(data) ==
    LET server_end == Find0(data, 1)
        i1 == server_end + 1
        i2 == i1 + 4
        i3 == i2 + 9
        i4 == i3 + 2
        ext == HasExtendedBlock(data, i4)
        stat == Unpack(Slice(data, i4 + 1, i4 + 3))
        cap_h == Unpack(Slice(data, i4 + 3, i4 + 5))
        len0 == Unpack(Slice(data, i4 + 5, i4 + 6))
        salt_len == IF len0 - 9 > 12 THEN len0 - 9 ELSE 12
        i5 == i4 + 6 + 10
        cap_l == Unpack(Slice(data, i3, i3 + 2))
    IN  [protocol_version |-> Unpack(Slice(data, 0, 1)),
         server_version |-> Slice(data, 1, server_end),
         server_thread_id |-> Unpack(Slice(data, i1, i1 + 4)),
         salt |-> Slice(data, i2, i2 + 8)
                    \o IF ext /\ Len(data) >= i5 + salt_len
                       THEN Slice(data, i5, i5 + salt_len) ELSE <<>>,
         server_capabilities |-> IF ext THEN cap_l + cap_h * 65536 ELSE cap_l,
         server_status |-> IF ext THEN stat ELSE Unset,
         exc |-> IF ext THEN "none" ELSE "UnboundLocalError"]

get_server_information(t) ==
    /\ At(t, "gsi1")
    /\ LET info == ServerInformation(GreetingData(task[t].ret))
       IN  /\ conn' = [conn EXCEPT
                         !.protocol_version = info.protocol_version,
                         !.server_version = info.server_version,
                         !.server_thread_id = info.server_thread_id,
                         !.salt = info.salt,
                         !.server_capabilities = info.server_capabilities,
                         !.server_status = IF info.server_status = Unset
                                           THEN @ ELSE info.server_status]
           /\ task' = [task EXCEPT ![t].stack = Ret(t), ![t].exc = info.exc]
    /\ UNCHANGED <<tr, res, last, cur, gh, fr>>

\* What the server answers to the handshake response: OK, Error, or the
\* end-of-sequence marker that asks for the legacy scramble.
AuthReplies == {<<Pkt("OK", 0, 0, 0, 0)>>, <<Pkt("ERR", 0, 0, 0, 0)>>,
                <<Pkt("EOF", 0, 0, 0, 0)>>}
LegacyReplies == {<<Pkt("OK", 0, 0, 0, 0)>>, <<Pkt("ERR", 0, 0, 0, 0)>>}

\* An authentication packet as written: its sequence number and the
\* scramble it carries.
AuthPacket(seq, scramble) == [seq |-> seq, scramble |-> scramble]

\* Line 508: the server asks for the legacy scramble.
LegacyRequested_always(p) == TRUE
LegacyRequested(p) == is_eof_packet(p)

request_authentication(t) ==
    \* lines 475-476
    \/ /\ At(t, "ra0")
       /\ conn.user = NoUser
       /\ task' = [task EXCEPT ![t].stack = Ret(t), ![t].exc = "ValueError"]
       /\ UNCHANGED <<conn, tr, res, last, cur, gh, fr>>
    \* lines 486-504: the handshake response is written with next_packet = 1,
    \* next_packet becomes 3, the answer is read
    \/ /\ At(t, "ra0")
       /\ conn.user # NoUser
       /\ \E pk \in AuthReplies :
             tr' = [tr EXCEPT ![conn.writer].inq = Deliver(conn.writer, pk)]
       /\ task' = [task EXCEPT
                     ![t].stack = <<ReadFrame(FALSE),
                                    [Top(t) EXCEPT !.l = "ra1", !.n = 1 + 2]>>
                                  \o Ret(t),
                     ![t].auth = Append(@, AuthPacket(1, "scramble")),
                     ![t].io = TRUE]
       /\ cur' = 0
       /\ UNCHANGED <<conn, res, last, gh, fr>>
    \* lines 508-512: the legacy scramble is written with next_packet; line
    \* 512 calls _read_packet without yield from, so nothing is read
    \/ /\ At(t, "ra1")
       /\ IF LegacyRequested(task[t].ret)
          THEN /\ \E pk \in LegacyReplies :
                     tr' = [tr EXCEPT ![conn.writer].inq = Deliver(conn.writer, pk)]
               /\ task' = [task EXCEPT
                             ![t].stack = Ret(t),
                             ![t].auth = Append(@, AuthPacket(Top(t).n,
                                                              "scramble_323"))]
          ELSE /\ task' = [task EXCEPT ![t].stack = Ret(t)]
               /\ UNCHANGED tr
       /\ UNCHANGED <<conn, res, last, cur, gh, fr>>

----------------------------------------------------------------------------
(* Connection._execute_command (lines 435-467) and                        *)
(* MySQLResult._finish_unbuffered_query (lines 676-686).                  *)

\* Line 437: the command is refused when there is no writer.
NotConnected == conn.writer = None
\* Line 442: the last result is a streaming result still active.
MustFinish == conn.result # None /\ res[conn.result].unbuffered_active

execute_command(t) ==
    \/ /\ At(t, "ec0")
       /\ task' = [task EXCEPT
             ![t].exc = IF NotConnected THEN "InterfaceError" ELSE "none",
             ![t].stack =
                IF NotConnected THEN @
                ELSE IF MustFinish
                THEN <<F("fin0", conn.result, FALSE, 0, "")>>
                     \o <<[Top(t) EXCEPT !.l = "ec1", !.f = TRUE, !.r = conn.result]>>
                     \o Tail(@)
                ELSE Goto(t, "ec1")]
       /\ UNCHANGED <<conn, tr, res, last, cur, gh, fr>>
    \* lines 445-467: the frames are written; the server answers
    \/ /\ At(t, "ec1")
       /\ gh.ncmd < MaxCmds
       /\ LET w == conn.writer
              tag == gh.ncmd + 1 IN
          \E rep \in ServerReply(Top(t).c, Top(t).n, tr[w].sac, tag) :
             /\ tr' = [tr EXCEPT ![w].inq = Deliver(w, rep.pk),
                                 ![w].sac = rep.sac]
             /\ gh' = [gh EXCEPT !.ncmd = tag]
             /\ task' = [task EXCEPT ![t].stack = Ret(t), ![t].io = TRUE,
                                     ![t].cmd = tag, ![t].wr = @ + 1, ![t].rd = 0,
                                     ![t].err = HasError(rep.pk),
                                     ![t].got = <<>>,
                                     ![t].ans = ResultSetOf(rep.pk[1])]
       /\ UNCHANGED <<conn, res, last, cur, fr>>

\* The end test of a buffered read, of the drain and of a single-row pull
\* (lines 643-649, called at 664, 683, 694).
check_packet_is_eof_any(p) == TRUE
check_packet_is_eof(p) == is_eof_packet(p)

finish_unbuffered_query(t) ==
    \* line 681-682: read on while the result is active
    \/ /\ At(t, "fin0")
       /\ LET r == Top(t).r IN
          task' = [task EXCEPT
             ![t].exc = IF res[r].unbuffered_active /\ ~res[r].connection
                        THEN "AttributeError" ELSE "none",
             ![t].stack = IF ~res[r].unbuffered_active THEN Ret(t)
                          ELSE IF ~res[r].connection THEN @
                          ELSE <<ReadFrame(FALSE)>> \o Goto(t, "fin1")]
       /\ cur' = IF res[Top(t).r].unbuffered_active /\ res[Top(t).r].connection
                 THEN 0 ELSE cur
       /\ UNCHANGED <<conn, tr, res, last, gh, fr>>
    \* lines 683-686
    \/ /\ At(t, "fin1")
       /\ res' = IF check_packet_is_eof(task[t].ret)
                 THEN [res EXCEPT ![Top(t).r].unbuffered_active = FALSE,
                                  ![Top(t).r].connection = FALSE]
                 ELSE res
       /\ task' = [task EXCEPT ![t].stack = Goto(t, "fin0")]
       /\ UNCHANGED <<conn, tr, last, cur, gh, fr>>

----------------------------------------------------------------------------
(* Connection._read_ok_packet (lines 224-231): the frame "rok1" goes on   *)
(* once the packet is read.                                               *)

\* Lines 229-230: the status an OK packet carries.
OkStatus_stale(p) == conn.server_status
OkStatus(p) == p.st

read_ok_packet(t) ==
    /\ At(t, "rok1")
    /\ IF is_ok_packet(task[t].ret)
       THEN /\ conn' = [conn EXCEPT !.server_status = OkStatus(task[t].ret)]
            /\ task' = [task EXCEPT ![t].stack = Ret(t)]
       ELSE /\ task' = [task EXCEPT ![t].stack = Ret(t),
                                    ![t].exc = "OperationalError2014"]
            /\ UNCHANGED conn
    /\ UNCHANGED <<tr, res, last, cur, gh, fr>>

\* A caller reads an OK packet: lines 239, 245, 251, 257, 263, 307, 320.
CallReadOk(t, l) == <<ReadFrame(FALSE), F("rok1", None, FALSE, 0, "")>> \o Goto(t, l)

----------------------------------------------------------------------------
(* Connection.autocommit (lines 213-218), _send_autocommit_mode (233-239). *)

B2N(b) == IF b THEN 1 ELSE 0

\* Line 215: the mode is recorded before anything else.
RecordMode(value) == [conn EXCEPT !.autocommit_mode = value]

autocommit(t) ==
    \/ /\ CanCall(t)
       /\ \E value \in BOOLEAN :
             Begin(t, "autocommit", B2N(value), <<F("ac0", None, value, 0, "")>>)
       /\ cur' = t
       /\ UNCHANGED <<conn, tr, res, fr>>
    \* lines 215-218; get_autocommit reads server_status, an attribute that
    \* does not exist before a packet has set it
    \/ /\ At(t, "ac0")
       /\ conn' = RecordMode(Top(t).f)
       /\ task' = [task EXCEPT
             ![t].exc = IF conn.server_status = Unset THEN "AttributeError" ELSE "none",
             ![t].stack =
                IF conn.server_status = Unset THEN @
                ELSE IF Top(t).f # get_autocommit(conn.server_status)
                THEN <<F("ec0", None, FALSE, B2N(Top(t).f), "SET_AUTOCOMMIT")>>
                     \o <<F("sam1", None, FALSE, 0, "")>> \o Goto(t, "ac1")
                ELSE Ret(t)]
       /\ UNCHANGED <<tr, res, last, cur, gh, fr>>
    \/ /\ At(t, "ac1")
       /\ task' = [task EXCEPT ![t].stack = Ret(t)]
       /\ UNCHANGED <<conn, tr, res, last, cur, gh, fr>>

send_autocommit_mode(t) ==
    \/ /\ At(t, "sam1")
       /\ task' = [task EXCEPT ![t].stack = CallReadOk(t, "sam2")]
       /\ cur' = 0
       /\ UNCHANGED <<conn, tr, res, last, gh, fr>>
    \/ /\ At(t, "sam2")
       /\ task' = [task EXCEPT ![t].stack = Ret(t)]
       /\ UNCHANGED <<conn, tr, res, last, cur, gh, fr>>

----------------------------------------------------------------------------
(* begin, commit, rollback, select_db, kill (lines 241-263, 303-307):     *)
(* one command, one OK packet.                                            *)

OkCommand(t, op, c) ==
    /\ CanCall(t)
    /\ Begin(t, op, 0, <<F("ec0", None, FALSE, 0, c), F("okc1", None, FALSE, 0, "")>>)
    /\ cur' = t
    /\ UNCHANGED <<conn, tr, res, fr>>

begin(t) == OkCommand(t, "begin", "BEGIN")
commit(t) == OkCommand(t, "commit", "COMMIT")
rollback(t) == OkCommand(t, "rollback", "ROLLBACK")
select_db(t) == OkCommand(t, "select_db", "INIT_DB")
kill(t) == OkCommand(t, "kill", "PROCESS_KILL")

ok_command(t) ==
    \/ /\ At(t, "okc1")
       /\ task' = [task EXCEPT ![t].stack = CallReadOk(t, "okc2")]
       /\ cur' = 0
       /\ UNCHANGED <<conn, tr, res, last, gh, fr>>
    \/ /\ At(t, "okc2")
       /\ task' = [task EXCEPT ![t].stack = Ret(t)]
       /\ UNCHANGED <<conn, tr, res, last, cur, gh, fr>>

----------------------------------------------------------------------------
(* Connection.set_charset (lines 328-336). *)

set_charset(t) ==
    \/ /\ CanCall(t)
       /\ \E cs \in Charsets \cup {"klingon"} :
             Begin(t, "set_charset", B2N(cs \in Charsets),
                   <<F("scs0", None, FALSE, 0, cs)>>)
       /\ cur' = t
       /\ UNCHANGED <<conn, tr, res, fr>>
    \* line 331 raises for a charset charset_by_name does not know
    \/ /\ At(t, "scs0")
       /\ task' = [task EXCEPT
             ![t].charset = Top(t).c,
             ![t].exc = IF Top(t).c \in Charsets THEN "none" ELSE "AttributeError",
             ![t].stack = IF Top(t).c \in Charsets
                          THEN Call(t, "scs1", F("ec0", None, FALSE, 0, "SET_NAMES"))
                          ELSE @]
       /\ UNCHANGED <<conn, tr, res, last, cur, gh, fr>>
    \/ /\ At(t, "scs1")
       /\ task' = [task EXCEPT ![t].stack = <<ReadFrame(FALSE)>> \o Goto(t, "scs2")]
       /\ cur' = 0
       /\ UNCHANGED <<conn, tr, res, last, gh, fr>>
    \/ /\ At(t, "scs2")
       /\ conn' = [conn EXCEPT !.charset = Top(t).c, !.encoding = Encoding(Top(t).c)]
       /\ task' = [task EXCEPT ![t].stack = Ret(t)]
       /\ UNCHANGED <<tr, res, last, cur, gh, fr>>

----------------------------------------------------------------------------
(* Connection.ping (lines 309-326).  ev is what the call did: "A" an      *)
(* attempt to ping, "X" the attempt failed, "C" connect was called, "K"   *)
(* connect returned.                                                      *)

\* Line 324: the retry is ping(False).
RetryReconnect_again == TRUE
RetryReconnect == FALSE

\* Line 312: a writer without a reader.
AlreadyClosed == conn.writer # None /\ conn.reader = None

ping(t) ==
    \/ /\ CanCall(t)
       /\ \E reconnect \in BOOLEAN :
             Begin(t, "ping", B2N(reconnect), <<F("pg0", None, reconnect, 0, "")>>)
       /\ cur' = t
       /\ UNCHANGED <<conn, tr, res, fr>>
    \* lines 312-319
    \/ /\ At(t, "pg0")
       /\ task' = [task EXCEPT
             ![t].exc = IF AlreadyClosed /\ ~Top(t).f THEN "Error" ELSE "none",
             ![t].ev = IF AlreadyClosed THEN @ \o <<"C">> ELSE @ \o <<"A">>,
             ![t].stack =
                IF AlreadyClosed
                THEN IF Top(t).f
                     THEN <<F("cn0", None, FALSE, 0, "")>>
                          \o <<[Top(t) EXCEPT !.f = FALSE]>> \o Tail(@)
                     ELSE @
                ELSE Call(t, "pg1", F("ec0", None, FALSE, 0, "PING"))]
       /\ cur' = IF AlreadyClosed /\ Top(t).f THEN 0 ELSE cur
       /\ UNCHANGED <<conn, tr, res, last, gh, fr>>
    \* line 320
    \/ /\ At(t, "pg1")
       /\ task' = [task EXCEPT ![t].stack = CallReadOk(t, "pg2")]
       /\ cur' = 0
       /\ UNCHANGED <<conn, tr, res, last, gh, fr>>
    \/ /\ At(t, "pg2")
       /\ task' = [task EXCEPT ![t].stack = Ret(t)]
       /\ UNCHANGED <<conn, tr, res, last, cur, gh, fr>>
    \* line 324: connect has returned
    \/ /\ At(t, "pg3")
       /\ task' = [task EXCEPT
             ![t].ev = @ \o <<"K">>,
             ![t].stack = Call(t, "pg4", F("pg0", None, RetryReconnect, 0, ""))]
       /\ UNCHANGED <<conn, tr, res, last, cur, gh, fr>>
    \/ /\ At(t, "pg4")
       /\ task' = [task EXCEPT ![t].stack = Ret(t)]
       /\ UNCHANGED <<conn, tr, res, last, cur, gh, fr>>

----------------------------------------------------------------------------
(* Connection.query and next_result (lines 288-298) and                   *)
(* _read_query_result (lines 411-427).                                    *)

query(t) ==
    \/ /\ CanCall(t)
       /\ \E unbuffered \in gh.modes, c \in {"SELECT", "UPDATE"} :
             Begin(t, "query", B2N(unbuffered),
                   <<F("ec0", None, FALSE, 0, c), F("q1", None, unbuffered, 0, "")>>)
       /\ cur' = t
       /\ UNCHANGED <<conn, tr, res, fr>>
    \* line 292
    \/ /\ At(t, "q1")
       /\ task' = [task EXCEPT ![t].stack =
                     Call(t, "q2", F("rq0", None, Top(t).f, 0, ""))]
       /\ UNCHANGED <<conn, tr, res, last, cur, gh, fr>>
    \* lines 293 and 298
    \/ /\ At(t, "q2")
       /\ task' = [task EXCEPT ![t].stack = Ret(t), ![t].val = conn.affected_rows]
       /\ UNCHANGED <<conn, tr, res, last, cur, gh, fr>>

next_result(t) ==
    /\ CanCall(t)
    /\ Begin(t, "next_result", 0,
             <<F("rq0", None, FALSE, 0, ""), F("q2", None, FALSE, 0, "")>>)
    /\ cur' = t
    /\ UNCHANGED <<conn, tr, res, fr>>

\* Line 418-419: what the handler of _read_query_result does to the result.
Discard(r) == [res EXCEPT ![r].unbuffered_active = FALSE, ![r].connection = FALSE]

read_query_result(t) ==
    \* lines 415-416 or 422-423: a result is created and its first packet read
    \/ /\ At(t, "rq0")
       /\ Len(res) < MaxResults
       /\ LET r == Len(res) + 1
              unbuffered == Top(t).f IN
          /\ res' = Append(res, [NewResult EXCEPT !.unbuffered_active = unbuffered,
                                                !.unbuffered = unbuffered])
          /\ task' = [task EXCEPT ![t].stack =
                <<ReadFrame(FALSE),
                  F(IF unbuffered THEN "iu1" ELSE "rd1", r, FALSE, 0, ""),
                  [Top(t) EXCEPT !.l = IF unbuffered THEN "rqu1" ELSE "rqb1", !.r = r]>>
                \o Tail(@)]
       /\ cur' = 0
       /\ UNCHANGED <<conn, tr, last, gh, fr>>
    \* lines 424-427
    \/ /\ cur = t
       /\ task[t].exc = "none"
       /\ task[t].stack # <<>>
       /\ Top(t).l \in {"rqu1", "rqb1"}
       /\ LET r == Top(t).r IN
          conn' = [conn EXCEPT
                     !.result = r,
                     !.affected_rows = res[r].affected_rows,
                     !.server_status = IF res[r].server_status # Unset
                                       THEN res[r].server_status ELSE @]
       /\ task' = [task EXCEPT ![t].stack = Ret(t)]
       /\ UNCHANGED <<tr, res, last, cur, gh, fr>>

----------------------------------------------------------------------------
(* MySQLResult (lines 589-742). *)

\* _read_ok_packet (lines 634-641)
ResultOk(r, p) == [res EXCEPT ![r].affected_rows = p.v, ![r].server_status = p.st,
                              ![r].cmd = p.tag]

\* init_unbuffered_query after its first packet (lines 621-632).  Line 627
\* calls _get_descriptions without yield from: the generator is created and
\* dropped, no descriptor is read and the attribute fields is not set.
init_unbuffered_query(t) ==
    /\ At(t, "iu1")
    /\ LET r == Top(t).r
           p == task[t].ret IN
       IF is_ok_packet(p)
       THEN /\ res' = [ResultOk(r, p) EXCEPT ![r].unbuffered_active = FALSE,
                                              ![r].connection = FALSE]
            /\ task' = [task EXCEPT ![t].stack = Ret(t)]
       ELSE IF LeiDefined(p)
       THEN /\ res' = [res EXCEPT ![r].field_count = read_length_encoded_integer(p),
                                  ![r].affected_rows = UINT64_MAX,
                                  ![r].cmd = p.tag, ![r].of = ResultSetOf(p)]
            /\ task' = [task EXCEPT ![t].stack = Ret(t)]
       ELSE /\ res' = [res EXCEPT ![r].cmd = p.tag]
            /\ task' = [task EXCEPT ![t].exc = "ParseError"]
    /\ UNCHANGED <<conn, tr, last, cur, gh, fr>>

\* read (lines 603-614) with _read_result_packet (651-655) inside it.
result_read(t) ==
    \* lines 606-612 and 653
    \/ /\ At(t, "rd1")
       /\ LET r == Top(t).r
              p == task[t].ret IN
          IF is_ok_packet(p)
          THEN /\ res' = [ResultOk(r, p) EXCEPT ![r].connection = FALSE]
               /\ task' = [task EXCEPT ![t].stack = Ret(t)]
               /\ UNCHANGED cur
          ELSE IF LeiDefined(p)
          THEN /\ res' = [res EXCEPT ![r].field_count = read_length_encoded_integer(p),
                                     ![r].fields = 0,
                                     ![r].cmd = p.tag, ![r].of = ResultSetOf(p)]
               /\ task' = [task EXCEPT ![t].stack =
                     <<ReadFrame(TRUE), F("gd1", r, FALSE, 0, "")>> \o Goto(t, "rd2")]
               /\ cur' = 0
          ELSE /\ res' = [res EXCEPT ![r].cmd = p.tag]
               /\ task' = [task EXCEPT ![t].exc = "ParseError"]
               /\ UNCHANGED cur
       /\ UNCHANGED <<conn, tr, last, gh, fr>>
    \* line 655: _read_rowdata_packet reads its first packet
    \/ /\ At(t, "rd2")
       /\ task' = [task EXCEPT ![t].stack =
             <<ReadFrame(FALSE), F("rrd1", Top(t).r, FALSE, 0, "")>> \o Goto(t, "rd3")]
       /\ cur' = 0
       /\ UNCHANGED <<conn, tr, res, last, gh, fr>>
    \* line 614
    \/ /\ At(t, "rd3")
       /\ res' = [res EXCEPT ![Top(t).r].connection = FALSE]
       /\ task' = [task EXCEPT ![t].stack = Ret(t)]
       /\ UNCHANGED <<conn, tr, last, cur, gh, fr>>

\* _get_descriptions (lines 730-742); the count of a column-count packet is
\* at least 1, and so is every other count read_length_encoded_integer gives.
get_descriptions(t) ==
    \* lines 736-739: one more descriptor
    \/ /\ At(t, "gd1")
       /\ LET r == Top(t).r IN
          /\ res' = [res EXCEPT ![r].fields = @ + 1]
          /\ task' = [task EXCEPT ![t].stack =
                IF res[r].fields + 1 < res[r].field_count
                THEN <<ReadFrame(TRUE)>> \o @
                ELSE <<ReadFrame(FALSE)>> \o Goto(t, "gd2")]
       /\ cur' = 0
       /\ UNCHANGED <<conn, tr, last, gh, fr>>
    \* lines 741-742
    \/ /\ At(t, "gd2")
       /\ task' = [task EXCEPT
             ![t].exc = IF is_eof_packet(task[t].ret) THEN "none" ELSE "AssertionError",
             ![t].stack = Ret(t)]
       /\ UNCHANGED <<conn, tr, res, last, cur, gh, fr>>

\* _read_row_from_packet (lines 703-728): the row a packet decodes to with n
\* field descriptors, <<number of the row, columns decoded>>; a packet that
\* is no row decodes to a row of number 0, if it decodes at all.
CanDecode(p, n) == IF p.k = "ROW" THEN {n <= p.w} ELSE BOOLEAN
read_row_from_packet(p, n) == <<IF p.k = "ROW" THEN p.v ELSE 0, n>>

\* _read_rowdata_packet (lines 688-701), once a packet is read.
read_rowdata_packet(t) ==
    /\ At(t, "rrd1")
    /\ LET r == Top(t).r
           p == task[t].ret IN
       IF check_packet_is_eof(p)
       THEN /\ res' = [res EXCEPT ![r].connection = FALSE,
                                  ![r].affected_rows = Len(Top(t).rw),
                                  ![r].rows = Top(t).rw,
                                  ![r].rows_none = FALSE]
            /\ task' = [task EXCEPT ![t].stack = Ret(t)]
            /\ UNCHANGED cur
       ELSE \E okay \in CanDecode(p, res[r].fields) :
            /\ task' = [task EXCEPT
                  ![t].exc = IF okay THEN "none" ELSE "ParseError",
                  ![t].stack =
                     IF okay
                     THEN <<ReadFrame(FALSE)>>
                          \o <<[Top(t) EXCEPT !.rw =
                                  Append(@, read_row_from_packet(p, res[r].fields))]>>
                          \o Tail(@)
                     ELSE @]
            /\ cur' = IF okay THEN 0 ELSE cur
            /\ UNCHANGED res
    /\ UNCHANGED <<conn, tr, last, gh, fr>>

\* _read_rowdata_packet_unbuffered (lines 657-674): a single-row pull on
\* result r.  The row is decoded with self.fields, an AttributeError while
\* the attribute does not exist.
read_rowdata_packet_unbuffered(t) ==
    \/ /\ CanCall(t)
       /\ \E r \in 1..Len(res) :
             Begin(t, "pull", r, <<F("pl0", r, FALSE, 0, "")>>)
       /\ cur' = t
       /\ UNCHANGED <<conn, tr, res, fr>>
    \* lines 660-663
    \/ /\ At(t, "pl0")
       /\ LET r == Top(t).r IN
          /\ task' = [task EXCEPT
                ![t].exc = IF res[r].unbuffered_active /\ ~res[r].connection
                           THEN "AttributeError" ELSE "none",
                ![t].stack = IF ~res[r].unbuffered_active THEN Ret(t)
                             ELSE IF ~res[r].connection THEN @
                             ELSE <<ReadFrame(FALSE)>> \o Goto(t, "pl1")]
          /\ cur' = IF res[r].unbuffered_active /\ res[r].connection THEN 0 ELSE cur
       /\ UNCHANGED <<conn, tr, res, last, gh, fr>>
    \* lines 664-674
    \/ /\ At(t, "pl1")
       /\ LET r == Top(t).r
              p == task[t].ret IN
          IF check_packet_is_eof(p)
          THEN /\ res' = [res EXCEPT ![r].unbuffered_active = FALSE,
                                     ![r].connection = FALSE,
                                     ![r].rows = <<>>, ![r].rows_none = TRUE]
               /\ task' = [task EXCEPT ![t].stack = Ret(t)]
          ELSE IF res[r].fields = Unset
          THEN /\ task' = [task EXCEPT ![t].exc = "AttributeError"]
               /\ UNCHANGED res
          ELSE \E okay \in CanDecode(p, res[r].fields) :
               /\ res' = IF okay
                         THEN [res EXCEPT
                                 ![r].affected_rows = 1,
                                 ![r].rows = <<read_row_from_packet(p, res[r].fields)>>,
                                 ![r].rows_none = FALSE,
                                 ![r].pulled = Append(@, read_row_from_packet(p, res[r].fields))]
                         ELSE res
               /\ task' = [task EXCEPT
                     ![t].exc = IF okay THEN "none" ELSE "ParseError",
                     ![t].stack = IF okay THEN Ret(t) ELSE @,
                     ![t].val = IF okay THEN 1 ELSE @]
       /\ UNCHANGED <<conn, tr, last, cur, gh, fr>>

----------------------------------------------------------------------------
(* An exception leaves the frame on top of the stack of task t.           *)

\* The labels a coroutine is at while inside its try block.
InReadTry(l) == l \in {"rd1", "rd2", "rd3"}
InPingTry(l) == l \in {"pg1", "pg2"}
InConnectTry(l) == l \in {"cn2", "cn3", "cn4"}

Unwind(t) ==
    /\ cur = t
    /\ task[t].exc # "none"
    /\ task[t].stack # <<>>
    /\ LET f == Top(t)
           retry == InPingTry(f.l) /\ f.f
           caught == InConnectTry(f.l) /\ ConnectHandles(task[t].exc) IN
       \* lines 321-326: ping reconnects, or raises again
       /\ task' = [task EXCEPT
             ![t].exc = IF retry THEN "none"
                        ELSE IF caught THEN "OperationalError2003" ELSE @,
             ![t].ev = IF retry THEN @ \o <<"X", "C">>
                       ELSE IF InPingTry(f.l) THEN @ \o <<"X">> ELSE @,
             ![t].stack = IF retry
                          THEN <<F("cn0", None, FALSE, 0, "")>> \o Goto(t, "pg3")
                          ELSE Ret(t)]
       /\ cur' = IF retry THEN 0 ELSE cur
       \* lines 417-420 and 613-614
       /\ res' = IF f.l = "rqu1" THEN Discard(f.r)
                 ELSE IF InReadTry(f.l)
                 THEN [res EXCEPT ![f.r].connection = FALSE]
                 ELSE res
       \* lines 372-376
       /\ conn' = IF caught THEN [conn EXCEPT !.reader = None, !.writer = None]
                  ELSE conn
    /\ UNCHANGED <<tr, last, gh, fr>>

----------------------------------------------------------------------------
(* The specifications. *)

\* gh: the operations called and the commands written so far, whether an
\* operation was ever called while another was in flight, and what the
\* callers of the run do: how many operations they call, the values of
\* unbuffered they pass to query, and whether they keep every result they
\* were given (a result nobody keeps is garbage), and how many columns the
\* tables they select from have at most, and the user they constructed the
\* Connection with.
InitGh == [nops |-> 0, ncmd |-> 0, overlap |-> FALSE,
           budget |-> MaxOps, modes |-> BOOLEAN, keep |-> FALSE,
           cols |-> MaxCols, user |-> "user"]

\* One caller and a Connection just constructed.
Init ==
    /\ conn = InitConn
    /\ tr = <<>>
    /\ res = <<>>
    /\ task = [t \in {1} |-> IdleTask]
    /\ last = [t \in {1} |-> NoLast]
    /\ cur = 0
    /\ gh = InitGh
    /\ fr = FrIdle

\* The Connection after connect() against a server that greets with the
\* extended block and autocommit off, and answers the handshake response OK.
ConnectedTransport == [NewTransport(TRUE, 0) EXCEPT !.inq = <<>>, !.ready = TRUE]
Connected ==
    LET info == ServerInformation(GreetingData(NewTransport(TRUE, 0).inq[1]))
    IN  [InitConn EXCEPT !.writer = 1, !.reader = 1,
                         !.protocol_version = info.protocol_version,
                         !.server_version = info.server_version,
                         !.server_thread_id = info.server_thread_id,
                         !.salt = info.salt,
                         !.server_capabilities = info.server_capabilities,
                         !.server_status = info.server_status]

\* One caller of query, next_result and single-row pulls, connected.
InitQuery ==
    /\ conn = Connected
    /\ tr = <<ConnectedTransport>>
    /\ res = <<>>
    /\ task = [t \in {1} |-> IdleTask]
    /\ last = [t \in {1} |-> NoLast]
    /\ cur = 0
    /\ gh = [InitGh EXCEPT !.budget = MaxQueryOps, !.keep = TRUE]
    /\ fr = FrIdle

\* Two tasks that call buffered queries on one connected Connection, on
\* tables of one column.
InitTasks ==
    /\ conn = Connected
    /\ tr = <<ConnectedTransport>>
    /\ res = <<>>
    /\ task = [t \in {1, 2} |-> IdleTask]
    /\ last = [t \in {1, 2} |-> NoLast]
    /\ cur = 0
    /\ gh = [InitGh EXCEPT !.budget = MaxTaskOps, !.modes = {FALSE}, !.cols = 1]
    /\ fr = FrIdle

\* The operations of the session and what they call, and the network.
Next ==
    \/ \E t \in Tasks : connect(t)
    \/ \E t \in Tasks : get_server_information(t)
    \/ \E t \in Tasks : request_authentication(t)
    \/ \E t \in Tasks : close(t)
    \/ \E t \in Tasks : close_async(t)
    \/ \E t \in Tasks : execute_command(t)
    \/ \E t \in Tasks : read_packet(t)
    \/ \E t \in Tasks : read_ok_packet(t)
    \/ \E t \in Tasks : autocommit(t)
    \/ \E t \in Tasks : send_autocommit_mode(t)
    \/ \E t \in Tasks : begin(t)
    \/ \E t \in Tasks : commit(t)
    \/ \E t \in Tasks : rollback(t)
    \/ \E t \in Tasks : select_db(t)
    \/ \E t \in Tasks : kill(t)
    \/ \E t \in Tasks : ok_command(t)
    \/ \E t \in Tasks : set_charset(t)
    \/ \E t \in Tasks : ping(t)
    \/ \E t \in Tasks : Unwind(t)
    \/ \E t \in Tasks : Complete(t)
    \/ ConnectionReset
    \/ ConnectionEof

Spec == Init /\ [][Next]_vars

\* The operations that read results, buffered and streaming, and commit.
NextQuery ==
    \/ \E t \in Tasks : query(t)
    \/ \E t \in Tasks : next_result(t)
    \/ \E t \in Tasks : read_rowdata_packet_unbuffered(t)
    \/ \E t \in Tasks : commit(t)
    \/ \E t \in Tasks : ok_command(t)
    \/ \E t \in Tasks : read_ok_packet(t)
    \/ \E t \in Tasks : execute_command(t)
    \/ \E t \in Tasks : finish_unbuffered_query(t)
    \/ \E t \in Tasks : read_packet(t)
    \/ \E t \in Tasks : read_query_result(t)
    \/ \E t \in Tasks : init_unbuffered_query(t)
    \/ \E t \in Tasks : result_read(t)
    \/ \E t \in Tasks : get_descriptions(t)
    \/ \E t \in Tasks : read_rowdata_packet(t)
    \/ \E t \in Tasks : Unwind(t)
    \/ \E t \in Tasks : Complete(t)

SpecQuery == InitQuery /\ [][NextQuery]_vars

\* Buffered queries.
NextTasks ==
    \/ \E t \in Tasks : query(t)
    \/ \E t \in Tasks : execute_command(t)
    \/ \E t \in Tasks : read_packet(t)
    \/ \E t \in Tasks : read_query_result(t)
    \/ \E t \in Tasks : result_read(t)
    \/ \E t \in Tasks : get_descriptions(t)
    \/ \E t \in Tasks : read_rowdata_packet(t)
    \/ \E t \in Tasks : Unwind(t)
    \/ \E t \in Tasks : Complete(t)

SpecTasks == InitTasks /\ [][NextTasks]_vars

\* One caller of queries (on tables of one column) and of session commands,
\* connected.
InitCommands ==
    /\ conn = Connected
    /\ tr = <<ConnectedTransport>>
    /\ res = <<>>
    /\ task = [t \in {1} |-> IdleTask]
    /\ last = [t \in {1} |-> NoLast]
    /\ cur = 0
    /\ gh = [InitGh EXCEPT !.budget = MaxCommandOps, !.cols = 1]
    /\ fr = FrIdle

\* Queries, the commands answered by one OK packet, and what they call.
NextCommands ==
    \/ \E t \in Tasks : query(t)
    \/ \E t \in Tasks : begin(t)
    \/ \E t \in Tasks : commit(t)
    \/ \E t \in Tasks : rollback(t)
    \/ \E t \in Tasks : select_db(t)
    \/ \E t \in Tasks : kill(t)
    \/ \E t \in Tasks : autocommit(t)
    \/ \E t \in Tasks : ping(t)
    \/ \E t \in Tasks : ok_command(t)
    \/ \E t \in Tasks : send_autocommit_mode(t)
    \/ \E t \in Tasks : read_ok_packet(t)
    \/ \E t \in Tasks : execute_command(t)
    \/ \E t \in Tasks : finish_unbuffered_query(t)
    \/ \E t \in Tasks : read_packet(t)
    \/ \E t \in Tasks : read_query_result(t)
    \/ \E t \in Tasks : init_unbuffered_query(t)
    \/ \E t \in Tasks : result_read(t)
    \/ \E t \in Tasks : get_descriptions(t)
    \/ \E t \in Tasks : read_rowdata_packet(t)
    \/ \E t \in Tasks : connect(t)
    \/ \E t \in Tasks : get_server_information(t)
    \/ \E t \in Tasks : request_authentication(t)
    \/ \E t \in Tasks : Unwind(t)
    \/ \E t \in Tasks : Complete(t)

SpecCommands == InitCommands /\ [][NextCommands]_vars

\* One caller of connect and of commit on a Connection just constructed,
\* with a user name, with an empty one or with none.
Users == {NoUser, "", "user"}
InitConnect ==
    /\ \E user \in Users :
          /\ conn = NewConn(user)
          /\ gh = [InitGh EXCEPT !.budget = MaxConnectOps, !.user = user]
    /\ tr = <<>>
    /\ res = <<>>
    /\ task = [t \in {1} |-> IdleTask]
    /\ last = [t \in {1} |-> NoLast]
    /\ cur = 0
    /\ fr = FrIdle

NextConnect ==
    \/ \E t \in Tasks : connect(t)
    \/ \E t \in Tasks : get_server_information(t)
    \/ \E t \in Tasks : request_authentication(t)
    \/ \E t \in Tasks : autocommit(t)
    \/ \E t \in Tasks : send_autocommit_mode(t)
    \/ \E t \in Tasks : commit(t)
    \/ \E t \in Tasks : ok_command(t)
    \/ \E t \in Tasks : read_ok_packet(t)
    \/ \E t \in Tasks : execute_command(t)
    \/ \E t \in Tasks : read_packet(t)
    \/ \E t \in Tasks : Unwind(t)
    \/ \E t \in Tasks : Complete(t)

SpecConnect == InitConnect /\ [][NextConnect]_vars

\* One caller of streaming queries and of ping, connected, on a network
\* that may break.  The event loop runs the operation in progress whenever
\* it can take a step: the server answers every command, a read of a
\* broken transport raises, a read of a packet that has arrived returns.
InitPing ==
    /\ conn = Connected
    /\ tr = <<ConnectedTransport>>
    /\ res = <<>>
    /\ task = [t \in {1} |-> IdleTask]
    /\ last = [t \in {1} |-> NoLast]
    /\ cur = 0
    /\ gh = [InitGh EXCEPT !.budget = MaxPingOps, !.modes = {TRUE}, !.cols = 1]
    /\ fr = FrIdle

NextPing ==
    \/ \E t \in Tasks : query(t)
    \/ \E t \in Tasks : ping(t)
    \/ \E t \in Tasks : connect(t)
    \/ \E t \in Tasks : get_server_information(t)
    \/ \E t \in Tasks : request_authentication(t)
    \/ \E t \in Tasks : autocommit(t)
    \/ \E t \in Tasks : send_autocommit_mode(t)
    \/ \E t \in Tasks : read_ok_packet(t)
    \/ \E t \in Tasks : execute_command(t)
    \/ \E t \in Tasks : finish_unbuffered_query(t)
    \/ \E t \in Tasks : read_packet(t)
    \/ \E t \in Tasks : read_query_result(t)
    \/ \E t \in Tasks : init_unbuffered_query(t)
    \/ \E t \in Tasks : Unwind(t)
    \/ \E t \in Tasks : Complete(t)
    \/ ConnectionReset
    \/ ConnectionEof

\* A step of an operation in progress.
Running == NextPing /\ task[1].op # "none" /\ task' # task

SpecPing == InitPing /\ [][NextPing]_vars /\ WF_vars(Running)

\* The framing alone: a payload is chosen, written and read back.
NextFrame == FrameChoose \/ FrameWrite \/ FrameRead
SpecFrame == Init /\ [][NextFrame]_vars

\* The writing alone, of short payloads and long ones.
NextLongFrame == FrameChoose \/ FrameChooseLong \/ FrameWrite
SpecLongFrame == Init /\ [][NextLongFrame]_vars

----------------------------------------------------------------------------
(* Framing properties, under SpecFrame and SpecLongFrame. *)

\* The payload of a command: the command byte, then the data.
Payload == <<fr.command>> \o fr.sql

RECURSIVE WireLen(_)
WireLen(fs) == IF fs = <<>> THEN 0 ELSE 2 + Head(fs).len + WireLen(Tail(fs))

\* C4: a payload of L bytes is written as floor(L / MAX_PACKET_LEN) + 1
\* frames and nothing else, every frame but the last of exactly
\* MAX_PACKET_LEN bytes and the last of L mod MAX_PACKET_LEN bytes (an empty
\* frame when L is a multiple); reading frames up to the first one shorter
\* than MAX_PACKET_LEN and concatenating them gives the payload back, byte
\* for byte, and consumes all that was written.
C4_FramingRoundTrip ==
    fr.pc = "read" =>
        LET L  == Len(Payload)
            fs == FramesOf(fr.wire)
        IN  /\ Len(fs) = L \div MAX_PACKET_LEN + 1
            /\ WireLen(fs) = Len(fr.wire)
            /\ \A i \in 1..(Len(fs) - 1) : fs[i].len = MAX_PACKET_LEN
            /\ fs[Len(fs)].len = L % MAX_PACKET_LEN
            /\ fr.packet.ok
            /\ fr.packet.buff = Payload
            /\ fr.packet.frames = Len(fs)
            /\ fr.packet.rest = <<>>

\* A payload of exactly two full frames was written and read back: the third
\* frame is the empty one.
C4_Witness ==
    /\ fr.pc = "read"
    /\ Len(Payload) = 2 * MAX_PACKET_LEN
    /\ fr.packet.frames = 3
    /\ fr.packet.buff = Payload

\* C17: the first frame of a command has sequence number 0 and its i-th
\* continuation frame has sequence number i mod 256: from frame to frame the
\* sequence number grows by one, and 0 follows 255.  Every write is one
\* frame, its sequence number the second number of its header.
C17_SequenceNumbers ==
    fr.pc = "written" =>
        LET ws == ExecuteCommandWrites(fr.command, fr.sql)
        IN  /\ fr.wire = Join(ws, 1, Len(ws))
            /\ Len(ws) = Len(Payload) \div MAX_PACKET_LEN + 1
            /\ ws[1][2] = 0
            /\ \A i \in 1..(Len(ws) - 1) :
                  /\ ws[i + 1][2] = i % 256
                  /\ ws[i + 1][2] = IF ws[i][2] = 255 THEN 0 ELSE ws[i][2] + 1
C17_Witness ==
    /\ fr.pc = "written"
    /\ Len(ExecuteCommandWrites(fr.command, fr.sql)) > 257
    /\ ExecuteCommandWrites(fr.command, fr.sql)[256][2] = 255
    /\ ExecuteCommandWrites(fr.command, fr.sql)[257][2] = 0
    /\ ExecuteCommandWrites(fr.command, fr.sql)[258][2] = 1

----------------------------------------------------------------------------
(* Result properties, under SpecQuery. *)

\* Task t is about to write the frames of a command, and the Connection's
\* result was streaming-active when the command was dispatched.
WritesAfterDrain(t) ==
    /\ cur = t
    /\ task[t].exc = "none"
    /\ task[t].stack # <<>>
    /\ Top(t).l = "ec1"
    /\ Top(t).f

\* The packets of the result set that result r began to read, still unread.
UnreadOf(r) ==
    LET inq == tr[conn.reader].inq
    IN  {i \in 1..Len(inq) : inq[i].tag = res[r].cmd}

\* C1: when a command is dispatched while the Connection's result is
\* streaming-active, the frames of the command are written only after that
\* result set was read up to and including its end-of-rows marker: no packet
\* of it is unread, and the result is inactive and detached.
C1_DrainedBeforeWrite ==
    \A t \in Tasks :
        WritesAfterDrain(t) =>
            /\ ~res[Top(t).r].unbuffered_active
            /\ ~res[Top(t).r].connection
            /\ UnreadOf(Top(t).r) = {}

\* Result r was created by query(unbuffered=True) on a well-formed result
\* set, no command was written since, and the last single-row pull on it by
\* task t has signalled end-of-rows.
StreamedToEnd(t, r) ==
    /\ res[r].unbuffered
    /\ res[r].of # <<0, 0>>
    /\ res[r].cmd = gh.ncmd
    /\ ~res[r].unbuffered_active
    /\ last[t].op = "pull" /\ last[t].arg = r
    /\ last[t].out = "ok" /\ last[t].val = 0

\* Result r was read by a buffered query, to the end.
BufferedToEnd(r) ==
    /\ ~res[r].unbuffered
    /\ res[r].of # <<0, 0>>
    /\ ~res[r].rows_none

\* C2: a result set read in streaming mode, by query(unbuffered=True) and
\* single-row pulls up to end-of-rows, gives the rows a buffered query gives
\* for the same result set, in the same order, and the same final
\* affected-row count.
C2_StreamingEqualsBuffered ==
    \A t \in Tasks : \A r1, r2 \in DOMAIN res :
        (BufferedToEnd(r1) /\ StreamedToEnd(t, r2) /\ res[r1].of = res[r2].of)
            => /\ res[r2].pulled = res[r1].rows
               /\ res[r2].affected_rows = res[r1].affected_rows

\* C3: at most one result created by the Connection is streaming-active.
C3_OneStreamingActive ==
    Cardinality({r \in DOMAIN res : res[r].unbuffered_active}) <= 1

----------------------------------------------------------------------------
(* Session properties, under Spec. *)

Count(seq, x) == Cardinality({i \in 1..Len(seq) : seq[i] = x})

\* What one call of ping may do, by its argument and its outcome.
PingTraces(reconnect, ok) ==
    IF ~reconnect
    THEN IF ok THEN {<<"A">>} ELSE {<<"A", "X">>}
    ELSE IF ok THEN {<<"A">>, <<"A", "X", "C", "K", "A">>}
         ELSE {<<"A", "X", "C">>, <<"A", "X", "C", "K", "A", "X">>}

\* C5: ping(reconnect=True) whose ping fails calls connect once and, when
\* connect returns, pings once more without reconnecting; a failure of
\* connect or of the second ping is raised to the caller.  One call of ping
\* calls connect at most once and attempts at most two pings;
\* ping(reconnect=False) never calls connect and raises the first failure.
C5_PingReconnectsOnce ==
    \A t \in Tasks :
        /\ task[t].op = "ping" =>
              /\ Count(task[t].ev, "C") <= 1
              /\ Count(task[t].ev, "A") <= 2
              /\ task[t].arg = 0 => Count(task[t].ev, "C") = 0
        /\ last[t].op = "ping" =>
              last[t].ev \in PingTraces(last[t].arg = 1, last[t].out = "ok")

\* ping(reconnect=True) failed, reconnected, pinged again, and the failure of
\* the second ping was raised.
C5_Witness ==
    \E t \in Tasks :
        /\ last[t].op = "ping"
        /\ last[t].arg = 1
        /\ last[t].out # "ok"
        /\ last[t].ev = <<"A", "X", "C", "K", "A", "X">>

\* The operations that send a command, with arguments the client accepts;
\* ping with reconnect=False only.
CommandOps == {"query", "begin", "commit", "rollback", "select_db", "kill",
               "autocommit"}
IsCommandOp(o) ==
    \/ o.op \in CommandOps
    \/ o.op = "set_charset" /\ o.arg = 1
    \/ o.op = "ping" /\ o.arg = 0

\* C6: a command operation called while the transport is not open fails
\* with the not-connected error, writes and reads nothing, and leaves the
\* session state (server status, charset, autocommit flag, current result,
\* affected-row count) as it was.
C6_NotConnectedRefused ==
    \A t \in Tasks :
        (IsCommandOp(last[t]) /\ ~last[t].open) =>
            /\ last[t].out = "InterfaceError"
            /\ ~last[t].io
            /\ last[t].same

\* What a failed read of the transport raises.
ReadFailures == {"OperationalError2006", "IncompleteReadError"}

\* C7: when a read of the transport fails during a command operation
\* called after a successful connect(), the operation raises and the
\* transport is cleared afterwards: the writer is None and open is false.
C7_ReadFailureClearsTransport ==
    \A t \in Tasks :
        (IsCommandOp(last[t]) /\ last[t].ready /\ last[t].out \in ReadFailures) =>
            /\ conn.writer = None
            /\ ~open

\* C8: connect() that fails by the network, at the opening of the transport
\* or at a read of the handshake, raises error 2003 and leaves reader and
\* writer None.
C8_ConnectFailureIs2003 ==
    \A t \in Tasks :
        (last[t].op = "connect" /\ last[t].out \in ReadFailures \cup {"OperationalError2003"}) =>
            /\ last[t].out = "OperationalError2003"
            /\ conn.reader = None
            /\ conn.writer = None

\* C9: close() raises nothing in any state, closes the transport it holds
\* once and leaves the Connection disconnected; no transport is closed more
\* than once.
C9_CloseIdempotent ==
    /\ \A i \in DOMAIN tr : tr[i].closes <= 1
    /\ \A t \in Tasks :
          last[t].op = "close" =>
              /\ last[t].out = "ok"
              /\ conn.writer = None

----------------------------------------------------------------------------
(* Two tasks, under SpecTasks. *)

\* Task t is about to write the frames of a command.
AboutToWrite(t) ==
    /\ cur = t
    /\ task[t].exc = "none"
    /\ task[t].stack # <<>>
    /\ Top(t).l = "ec1"

\* Task u has written a command and has not returned from its operation:
\* it waits for a packet of the response.
AwaitsResponse(u) == task[u].stack # <<>> /\ task[u].io

----------------------------------------------------------------------------
(* The commands answered by one OK packet, under SpecCommands. *)

\* The operation of task t has returned or raised, and the caller has not
\* resumed yet.
Finished(t) == cur = t /\ task[t].stack = <<>> /\ task[t].op # "none"

\* begin, commit, rollback, select_db, kill, ping(reconnect=False), and an
\* autocommit that sent SET AUTOCOMMIT.
OneOkOps == {"begin", "commit", "rollback", "select_db", "kill"}
IsOneOkOp(k) ==
    \/ k.op \in OneOkOps
    \/ k.op = "ping" /\ k.arg = 0
    \/ k.op = "autocommit" /\ k.wr > 0

\* How an operation ends when its command was written and the answer read.
Answered == {"none", "ServerError", "OperationalError2014"}

\* C11: begin, commit, rollback, select_db, kill, ping(reconnect=False) and
\* the SET AUTOCOMMIT of autocommit write one command and read one packet
\* in answer to it.  When the packet is an OK packet the operation returns
\* and the server status of the Connection is the status the packet
\* carries; when it is neither an OK nor an Error packet the operation
\* raises error 2014 and the server status is what it was.
C11_OneCommandOnePacket ==
    \A t \in Tasks :
        (Finished(t) /\ IsOneOkOp(task[t])) =>
            /\ task[t].wr <= 1
            /\ task[t].exc \in {"none", "OperationalError2014"} => task[t].wr = 1
            /\ (task[t].exc \in Answered /\ task[t].wr = 1) => task[t].rd = 1
            /\ task[t].exc = "none" =>
                  /\ is_ok_packet(task[t].ret)
                  /\ conn.server_status = task[t].ret.st
            /\ (task[t].wr = 1 /\ is_ok_packet(task[t].ret)) => task[t].exc = "none"
            /\ task[t].exc = "OperationalError2014" =>
                  /\ ~is_ok_packet(task[t].ret)
                  /\ ~is_error_packet(task[t].ret)
                  /\ task[t].ret # NoPkt
                  /\ conn.server_status = task[t].pre.server_status

\* A commit was answered by a packet that is neither OK nor Error, and has
\* raised error 2014.
C11_Witness ==
    \E t \in Tasks :
        /\ Finished(t)
        /\ task[t].op = "commit"
        /\ task[t].exc = "OperationalError2014"
        /\ task[t].wr = 1 /\ task[t].rd = 1

\* An autocommit sent SET AUTOCOMMIT and the server status changed with the
\* OK packet.
C11_WitnessOk ==
    \E t \in Tasks :
        /\ Finished(t)
        /\ task[t].op = "autocommit"
        /\ task[t].exc = "none"
        /\ task[t].wr = 1 /\ task[t].rd = 1
        /\ conn.server_status # task[t].pre.server_status

----------------------------------------------------------------------------
(* Results and errors, under SpecQuery. *)

\* Result r was built from an OK packet: only _read_ok_packet sets the
\* server status of a result.
FromOkPacket(r) == res[r].server_status # Unset

\* C12: a result built from an OK packet has field count 0 and no rows; and
\* a query whose answer holds an Error packet (as the first packet, among
\* the field descriptors or among the rows) raises, and leaves the current
\* result and the affected-row count of the Connection as they were.
C12_ErrorLeavesResult ==
    /\ \A r \in DOMAIN res :
          FromOkPacket(r) =>
              /\ res[r].field_count = 0
              /\ res[r].fields = Unset
              /\ res[r].rows_none
    /\ \A t \in Tasks :
          (Finished(t) /\ task[t].op = "query" /\ task[t].err) =>
              /\ task[t].exc # "none"
              /\ conn.result = task[t].pre.result
              /\ conn.affected_rows = task[t].pre.affected_rows


\* C13: a streaming result is inactive and has no reference to its
\* Connection once a read for it has raised (of the first packet of the
\* answer, in a single-row pull or in the drain before the next command),
\* and once a single-row pull has read its end-of-rows marker.
C13_StreamingReleased ==
    \A t \in Tasks :
        /\ (Finished(t) /\ task[t].failed # None /\ res[task[t].failed].unbuffered) =>
              /\ ~res[task[t].failed].unbuffered_active
              /\ ~res[task[t].failed].connection
        /\ (Finished(t) /\ task[t].op = "pull" /\ task[t].exc = "none"
                /\ task[t].val = 0 /\ res[task[t].arg].unbuffered) =>
              /\ ~res[task[t].arg].unbuffered_active
              /\ ~res[task[t].arg].connection


----------------------------------------------------------------------------
(* The handshake, under SpecConnect.                                      *)

\* C14: connect() on a Connection constructed with no user name raises
\* ValueError without opening a transport, reading or writing.
C14_NoUserRefused ==
    \A t \in Tasks :
        (Finished(t) /\ task[t].op = "connect" /\ ~task[t].open
            /\ gh.user = NoUser) =>
            /\ task[t].exc = "ValueError"
            /\ conn.writer = None
            /\ ~task[t].io
            /\ task[t].rd = 0
            /\ task[t].auth = <<>>


\* The greeting has been parsed by task t: _get_server_information has
\* returned or raised.
GreetingParsed(t) ==
    /\ task[t].ret.k = "GREET"
    /\ task[t].stack = <<>> \/ Top(t).l \notin {"rp", "gsi1"}

\* C15: parsing a greeting that holds no extended block raises nothing and
\* sets the protocol version, the server version and the thread id of the
\* greeting, the capabilities to capability-low and the salt to salt part 1.
C15_ShortGreetingParsed ==
    \A t \in Tasks :
        (GreetingParsed(t) /\ task[t].ret.v = 0) =>
            /\ task[t].exc = "none"
            /\ conn.protocol_version = ProtocolVersion
            /\ conn.server_version = ServerVersion
            /\ conn.server_thread_id = task[t].ret.w
            /\ conn.server_capabilities = CapabilityLow
            /\ conn.salt = SaltPart1


\* _request_authentication has returned to connect in task t; the packet
\* read last is the server's answer to the handshake response.
Authenticated(t) == task[t].stack # <<>> /\ Top(t).l = "cn3" /\ task[t].exc = "none"

\* C18: connect() writes the handshake response once, with sequence number
\* 1 and after it has read the greeting; it writes a second authentication
\* packet, with sequence number 3 and the legacy scramble, exactly when the
\* server answers the handshake response with the end-of-sequence marker;
\* it writes no third one.
C18_AuthPackets ==
    \A t \in Tasks :
        task[t].op = "connect" =>
            /\ Len(task[t].auth) <= 2
            /\ Len(task[t].auth) >= 1 =>
                  /\ task[t].auth[1] = AuthPacket(1, "scramble")
                  /\ task[t].wr = 0 => task[t].rd >= 1
            /\ Len(task[t].auth) = 2 =>
                  task[t].auth[2] = AuthPacket(3, "scramble_323")
            /\ Authenticated(t) =>
                  (Len(task[t].auth) = 2 <=> is_eof_packet(task[t].ret))
            /\ (Finished(t) /\ task[t].exc = "none") => Len(task[t].auth) >= 1
            /\ (Len(task[t].auth) = 2 /\ task[t].stack # <<>>) =>
                  Top(t).l \notin {"ra0", "ra1", "gsi1"}
C18_Witness ==
    \E t \in Tasks :
        /\ Authenticated(t)
        /\ is_eof_packet(task[t].ret)
        /\ task[t].auth = <<AuthPacket(1, "scramble"), AuthPacket(3, "scramble_323")>>


\* C19: when _request_authentication returns, the client has read every
\* packet the server has sent, and the first packet read after a command
\* was written is of the answer to that command.
C19_HandshakeRead ==
    \A t \in Tasks :
        /\ Authenticated(t) => tr[conn.writer].inq = <<>>
        /\ (task[t].wr >= 1 /\ task[t].rd = 1 /\ task[t].ret # NoPkt) =>
              task[t].ret.tag = task[t].cmd


----------------------------------------------------------------------------
(* Buffered queries and single-row pulls, under SpecQuery.                *)

\* The rows of a result set of c columns and n rows, decoded.
RowsOf(c, n) == [i \in 1..n |-> <<i, c>>]

\* C16: a buffered query answered by a result set of c >= 1 columns and n
\* rows reads the column count, c field descriptors, an end marker, n rows
\* and the final end marker, and nothing else; the rows of the result are
\* the n rows in order; the affected rows of the result and of the
\* Connection and the value query() returns are n; the result holds no
\* reference to the Connection.
C16_BufferedResultSet ==
    \A t \in Tasks :
        (Finished(t) /\ task[t].op = "query" /\ task[t].arg = B2N(FALSE)
            /\ task[t].wr = 1 /\ ~task[t].err /\ task[t].ans[1] >= 1) =>
            LET c == task[t].ans[1]
                n == task[t].ans[2]
                r == conn.result
            IN  /\ task[t].exc = "none"
                /\ task[t].got = ResultSetPackets(c, n, task[t].cmd)
                /\ r # None
                /\ res[r].rows = RowsOf(c, n)
                /\ ~res[r].rows_none
                /\ res[r].affected_rows = n
                /\ conn.affected_rows = n
                /\ task[t].val = n
                /\ ~res[r].connection


\* C20: a single-row pull reads one packet when the result is streaming
\* and active, none otherwise.  When the packet is the end marker the pull
\* returns no row and the result is inactive and detached; when it is
\* another packet (an Error packet aside) the pull returns one row and the
\* affected rows of the result are 1.  A pull that read nothing returns no
\* row.
C20_SingleRowPull ==
    \A t \in Tasks :
        (Finished(t) /\ task[t].op = "pull") =>
            LET r == task[t].arg IN
            /\ task[t].rd <= 1
            /\ task[t].wr = 0
            /\ task[t].rd = 0 =>
                  /\ ~res[r].unbuffered_active
                  /\ task[t].exc = "none"
                  /\ task[t].val = 0
            /\ (task[t].rd = 1 /\ is_eof_packet(task[t].got[1])) =>
                  /\ task[t].exc = "none"
                  /\ task[t].val = 0
                  /\ ~res[r].unbuffered_active
                  /\ ~res[r].connection
            /\ (task[t].rd = 1 /\ ~is_eof_packet(task[t].got[1])
                    /\ ~is_error_packet(task[t].got[1])) =>
                  /\ task[t].exc = "none"
                  /\ task[t].val = 1
                  /\ Len(res[r].rows) = 1
                  /\ res[r].affected_rows = 1


----------------------------------------------------------------------------
(* The Connection after a failed connect(), under SpecConnect.            *)

\* C21: after a connect() that raised, the Connection is not open; a
\* command operation called on a Connection that holds a transport on which
\* no connect() has returned raises the not-connected error and writes
\* nothing.
C21_NoCommandBeforeAuth ==
    \A t \in Tasks :
        /\ (Finished(t) /\ task[t].op = "connect" /\ task[t].exc # "none") =>
              ~open
        /\ (Finished(t) /\ IsCommandOp(task[t]) /\ task[t].open /\ ~task[t].ready) =>
              /\ task[t].exc = "InterfaceError"
              /\ task[t].wr = 0


----------------------------------------------------------------------------
(* set_charset and autocommit.                                            *)

\* C22: set_charset(c) leaves charset and encoding as they were until it
\* has written SET NAMES and read a packet that is no Error packet, and
\* then sets them to c; called with a charset that is not supported, or on
\* a Connection that is not connected, or answered by an Error packet, it
\* raises, and a set_charset that raises leaves charset and encoding as
\* they were.
C22_SetCharset ==
    \A t \in Tasks :
        /\ (task[t].op = "set_charset" /\ (task[t].wr = 0 \/ task[t].rd = 0)) =>
              /\ conn.charset = task[t].pre.charset
              /\ conn.encoding = task[t].pre.encoding
        /\ (Finished(t) /\ task[t].op = "set_charset") =>
              /\ task[t].exc = "none" =>
                    /\ task[t].wr = 1
                    /\ task[t].rd = 1
                    /\ ~is_error_packet(task[t].got[1])
                    /\ conn.charset = task[t].charset
                    /\ conn.encoding = Encoding(task[t].charset)
              /\ task[t].exc # "none" =>
                    /\ conn.charset = task[t].pre.charset
                    /\ conn.encoding = task[t].pre.encoding
              /\ (task[t].arg = 0 \/ ~task[t].open
                      \/ (task[t].wr = 1 /\ task[t].err)) =>
                    task[t].exc # "none"

\* C25: autocommit(v), called when the Connection has a server status,
\* records v as the autocommit mode; it writes SET AUTOCOMMIT, and reads
\* one OK packet for it, only when v differs from the autocommit bit of
\* that status, and writes and reads nothing when they are equal; after it
\* has returned, get_autocommit() is v.
C25_Autocommit ==
    \A t \in Tasks :
        (Finished(t) /\ task[t].op = "autocommit"
            /\ task[t].pre.server_status # Unset) =>
            LET v == task[t].arg = 1
                current == get_autocommit(task[t].pre.server_status)
            IN  /\ conn.autocommit_mode = v
                /\ v = current =>
                      /\ task[t].wr = 0
                      /\ task[t].rd = 0
                      /\ task[t].exc = "none"
                /\ (v # current /\ task[t].open) => task[t].wr = 1
                /\ (v # current /\ task[t].exc = "none") =>
                      /\ task[t].wr = 1
                      /\ task[t].rd = 1
                      /\ is_ok_packet(task[t].got[1])
                /\ task[t].exc = "none" => get_autocommit(conn.server_status) = v

----------------------------------------------------------------------------
(* Termination of ping, under SpecPing.                                   *)

\* The operation of task t is at a step the bounds of the model refuse.
AtBound(t) ==
    /\ task[t].stack # <<>>
    /\ \/ Top(t).l = "ec1" /\ gh.ncmd >= MaxCmds
       \/ Top(t).l = "cn0" /\ Len(tr) >= MaxTransports
       \/ Top(t).l = "rq0" /\ Len(res) >= MaxResults

\* C23: ping(reconnect=True) returns or raises, whatever the state of the
\* Connection it is called in.
C23_PingTerminates ==
    (task[1].op = "ping" /\ task[1].arg = 1) ~> (task[1].op # "ping" \/ AtBound(1))

----------------------------------------------------------------------------
(* The transports of a Connection, under Spec.                            *)

\* Transport i was opened and the Connection has not closed it.
NotClosed(i) == tr[i].closes = 0

\* C24: a transport the Connection has opened and not closed is the one it
\* holds, so at most one such transport exists at any time.
C24_NoAbandonedTransport ==
    /\ \A i \in DOMAIN tr : NotClosed(i) => conn.writer = i
    /\ \A i, j \in DOMAIN tr : (NotClosed(i) /\ NotClosed(j)) => i = j

====
